---------------------------- MODULE Spec2Model ----------------------------
(***************************************************************************)
(* A model of the stock-ml daily model lifecycle: the MongoDB data access  *)
(* layer (src/db/models.py, src/db/connection.py) and the pipeline stages  *)
(* that use it (src/pipeline/build_features.py, train_model.py,            *)
(* predict.py, evaluate_and_explain.py), run as src/pipeline/scheduler.py  *)
(* runs them.                                                              *)
(*                                                                         *)
(* A collection is a sequence of documents in insertion (natural) order.   *)
(* Calendar dates are proleptic ordinals (date.toordinal()), wall-clock    *)
(* time is a tick counter.                                                 *)
(***************************************************************************)
EXTENDS Integers, Sequences, FiniteSets, TLC

\* ------------------------------------------------------------------ bounds
\* Highest value of the wall clock, in ticks.
MaxClock == 4
\* Clock ticks per second: datetime.utcnow() is finer than the %S of a model_id.
TicksPerSecond == 2
\* Number of training processes that may run save_model at the same time.
NumTrainers == 2
\* Total number of save_model calls in one behaviour.
MaxRuns == 3
\* Total number of DAO insert_* calls in one behaviour of the DAO specification.
MaxCalls == 3
\* Total number of stage runs in one behaviour of the pipeline specification.
MaxSteps == 4
\* Last calendar day (a proleptic ordinal: day 1 is a Monday) of the model.
MaxDay == 44
\* Longest feature history of one ticker, in rows, of the cross-validation
\* specification.
MaxHistory == 52
\* Longest price history of one ticker, in bars, of the feature specification.
MaxBars == 22

Tickers == {"A_EQ", "B_EQ"}
\* The calendar days of the model: Thursday 4 up to MaxDay.
Days == 4..MaxDay

Trainers == 1..NumTrainers

VARIABLES
  now,        \* the wall clock, in ticks
  models,     \* the models collection
  tpc,        \* tpc[p]: where trainer p is inside ModelsDAO.save_model
  tdoc,       \* tdoc[p]: the model_data document trainer p is about to insert
  runs,       \* number of save_model calls started so far
  lastResult, \* how the call that completed last ended: "none", "ok", "error"
  lastId,     \* the model_id that call computed
  prices,     \* the prices collection
  features,   \* the features collection
  predictions,\* the predictions collection
  evaluations,\* the evaluations collection
  latest,     \* latest[c]: per natural key of collection c, the document of
              \* the most recent upsert for that key (a history variable)
  calls,      \* number of DAO insert_* calls so far
  news,       \* the news collection
  stage,      \* the stage that ran last and its exit status
  steps,      \* number of stage runs so far
  cv,         \* the training run inside its cross-validation: its position,
              \* the labelled frame, the fold and its two index partitions
  job,        \* job[j]: where job j of the scheduler, or the pipeline runner
              \* "main", is in its list of scripts, and how it stands
  loaded,     \* what a running predict.py holds in memory between its reads
              \* and its write
  response,   \* the last response of the HTTP service
  env         \* the process of manage_environments.py that ran last (its
              \* DEP_TYPE, configuration and connection) and what the two
              \* databases hold of its work

modelVars == <<models, tpc, tdoc, runs, lastResult, lastId>>
storeVars == <<prices, features, predictions, evaluations, latest, calls, news>>
stageVars == <<stage, steps, cv, job, loaded, response, env>>
vars == <<now, models, tpc, tdoc, runs, lastResult, lastId,
          prices, features, predictions, evaluations, latest, calls, news,
          stage, steps, cv, job, loaded, response, env>>

\* An undefined number: NaN in a frame, None in a stored document.
NaN == -99

\* ------------------------------------------------------- helpers on sequences
Range(s) == {s[i] : i \in 1..Len(s)}

Min(S) == CHOOSE x \in S : \A y \in S : x <= y
Max(S) == CHOOSE x \in S : \A y \in S : x >= y

\* A placeholder for "no document" (find_one's None, get_active_model's {}).
NoDoc == [model_id |-> -1]

\* ------------------------------------------------------------ connection.py
\* ensure_datetime_fields: created_at is set only when the document has none,
\* updated_at always.
ensure_datetime_fields(document, t) ==
  LET withCreated == IF "created_at" \in DOMAIN document
                     THEN document
                     ELSE document @@ [created_at |-> t]
  IN  [k \in (DOMAIN withCreated) \cup {"updated_at"} |->
         IF k = "updated_at" THEN t ELSE withCreated[k]]

\* prepare_for_mongo: date-like values become datetimes (the model's dates and
\* times are already integers), then the bookkeeping timestamps are stamped.
prepare_for_mongo(data, t) == ensure_datetime_fields(data, t)

\* ------------------------------------------------------- the upsert stores
\* os.getenv('DEP_TYPE', 'prod') with the variable unset.
DEP_TYPE == "prod"

\* The natural key of a document under the key fields K of a ReplaceOne filter.
KeyOf(doc, K) == [k \in K |-> doc[k]]

\* record[field] = value on a dict: the field is added or overwritten.
SetField(rec, field, value) ==
  [k \in (DOMAIN rec) \cup {field} |-> IF k = field THEN value ELSE rec[k]]

\* The k-th smallest member of a set of numbers.
Nth(S, k) == CHOOSE i \in S : Cardinality({j \in S : j < i}) = k - 1

\* bulk_write without the filters of its operations: every record is inserted.
bulk_write_inserts(coll, K, records) == coll \o records

\* collection.bulk_write of one pymongo.ReplaceOne(filter on the fields K,
\* record, upsert=True) per record, in order.  An operation replaces whole the
\* first document that matches its filter, or inserts its record when none
\* does.  So the first stored document of a key is replaced by the last
\* record of that key, and the records of keys not stored are appended in the
\* order in which their keys first appear, each key with its last record.
bulk_write(coll, K, records) ==
  LET last(k) == records[Max({i \in 1..Len(records) : KeyOf(records[i], K) = k})]
      written == {KeyOf(records[i], K) : i \in 1..Len(records)}
      stored == {KeyOf(coll[j], K) : j \in 1..Len(coll)}
      first(j) == \A i \in 1..(j - 1) : KeyOf(coll[i], K) # KeyOf(coll[j], K)
      replaced == [j \in 1..Len(coll) |->
                     IF first(j) /\ KeyOf(coll[j], K) \in written
                     THEN last(KeyOf(coll[j], K)) ELSE coll[j]]
      fresh == {i \in 1..Len(records) :
                  /\ KeyOf(records[i], K) \notin stored
                  /\ \A h \in 1..(i - 1) : KeyOf(records[h], K) # KeyOf(records[i], K)}
  IN  replaced \o [n \in 1..Cardinality(fresh) |->
                     last(KeyOf(records[Nth(fresh, n)], K))]

\* PricesDAO.insert_prices, lines 109-116: one record made ready.
prices_record(r, data_source, t) ==
  SetField(SetField(prepare_for_mongo(r, t), "data_source", data_source),
           "dep_type", DEP_TYPE)

PricesKey == {"date", "ticker"}

\* PricesDAO.insert_prices
insert_prices(coll, df, data_source, t) ==
  bulk_write(coll, PricesKey,
             [i \in 1..Len(df) |-> prices_record(df[i], data_source, t)])

\* FeaturesDAO.insert_features, lines 375-381 (NaN is written None; the model
\* has one value, "NaN", for both).
features_record(r, t) == prepare_for_mongo(r, t)

FeaturesKey == {"date", "ticker"}

\* FeaturesDAO.insert_features
insert_features(coll, df, t) ==
  bulk_write(coll, FeaturesKey, [i \in 1..Len(df) |-> features_record(df[i], t)])

\* PredictionsDAO.insert_predictions, lines 522-531: prediction_date is the
\* row's date and target_date the calendar day after it.
predictions_record(r, model_id, t) ==
  LET rec == SetField(prepare_for_mongo(r, t), "model_id", model_id)
  IN  IF "date" \in DOMAIN rec
      THEN SetField(SetField(rec, "prediction_date", rec.date),
                    "target_date", rec.date + 1)
      ELSE rec

PredictionsKey == {"prediction_date", "ticker", "model_id"}

\* PredictionsDAO.insert_predictions
insert_predictions(coll, df, model_id, t) ==
  bulk_write(coll, PredictionsKey,
             [i \in 1..Len(df) |-> predictions_record(df[i], model_id, t)])

\* EvaluationsDAO.insert_evaluations, lines 599-601.
evaluations_record(r, t) == SetField(prepare_for_mongo(r, t), "dep_type", DEP_TYPE)

EvaluationsKey == {"target_date", "ticker"}

\* EvaluationsDAO.insert_evaluations
insert_evaluations(coll, df, t) ==
  bulk_write(coll, EvaluationsKey,
             [i \in 1..Len(df) |-> evaluations_record(df[i], t)])

\* The history variable: the documents of the most recent upsert per key.
RECURSIVE Remember(_, _, _)
Remember(known, K, records) ==
  IF records = <<>> THEN known
  ELSE Remember({d \in known : KeyOf(d, K) # KeyOf(Head(records), K)}
                  \cup {Head(records)}, K, Tail(records))

InitStores ==
  /\ prices = <<>>
  /\ features = <<>>
  /\ predictions = <<>>
  /\ evaluations = <<>>
  /\ latest = [c \in {"prices", "features", "predictions", "evaluations"} |-> {}]
  /\ calls = 0
  /\ news = <<>>

\* No training run is inside its cross-validation.
NoCV == [at |-> "idle", df |-> <<>>, fold |-> 0, tr |-> {}, te |-> {}]

\* run_production_pipeline.py, pipeline_steps: the scripts in their order,
\* named by the stage each one is.
pipeline_steps ==
  <<"universe", "collect_prices", "collect_news", "features", "train",
    "predict", "evaluate">>

\* The four jobs scheduler.py registers, and the pipeline runner's main.
SchedulerJobs == {"job_collect", "job_train", "job_predict", "job_eval"}
Jobs == SchedulerJobs \cup {"main"}

\* The scripts a job runs, in its order.
Scripts(j) ==
  CASE j = "job_collect" -> <<"universe", "collect_prices", "collect_news", "features">>
    [] j = "job_train" -> <<"train">>
    [] j = "job_predict" -> <<"predict">>
    [] j = "job_eval" -> <<"evaluate">>
    [] j = "main" -> pipeline_steps

\* A job that is not running: at is the number of the script it ran last.
IdleJob == [at |-> 0, status |-> "idle"]

\* The jobs whose child process the running script `name` is.
ParentsOf(name) ==
  {j \in Jobs : job[j].status = "running" /\ Scripts(j)[job[j].at] = name}

\* run_command with critical = False: the next script is started whatever the
\* exit status of the last.
AfterScriptNotCritical(j, status) ==
  IF job[j].at = Len(Scripts(j)) THEN [job[j] EXCEPT !.status = "done"]
  ELSE [job[j] EXCEPT !.at = @ + 1]

\* subprocess.run(..., check=True) has returned in job j with the exit status
\* of the script: on a nonzero status CalledProcessError ends the job
\* (scheduler.py, run) or the runner, which exits 1 (run_command, lines
\* 33-47); otherwise the next script is started, or the job is done.
AfterScript(j, status) ==
  IF status # 0 THEN [job[j] EXCEPT !.status = "failed"]
  ELSE IF job[j].at = Len(Scripts(j)) THEN [job[j] EXCEPT !.status = "done"]
  ELSE [job[j] EXCEPT !.at = @ + 1]

\* No predict.py is between its reads and its write.
NotLoaded == [at |-> "idle", model |-> 0, out |-> <<>>]

\* config.py: the two environments and the database of each (DB_NAME is
\* left unset in the shell).
DepTypes == {"prod", "mock"}
DatabaseName(dep_type) == IF dep_type = "prod" THEN "stock_ml_prod" ELSE "stock_ml_mock"
DatabaseNames == {DatabaseName(d) : d \in DepTypes}

\* A process starts on a command with DEP_TYPE = dep_type in its shell: config.py builds
\* db_config, connection.py imports that object under its own name and
\* builds a DatabaseManager without a connection.  The databases keep what
\* they hold.
StartProcess(e, command, dep_type) ==
  [e EXCEPT !.command = command,
            !.DEP_TYPE = dep_type,
            !.config = DatabaseName(dep_type),
            !.imported = DatabaseName(dep_type),
            !.sync_db = "None",
            !.indexes_created = FALSE]

\* No process has run and the databases are empty.
NoEnv ==
  [command |-> "none", DEP_TYPE |-> "prod", config |-> DatabaseName("prod"),
   imported |-> DatabaseName("prod"), sync_db |-> "None",
   indexes_created |-> FALSE, indexed |-> {},
   universe |-> [d \in DatabaseNames |-> "none"]]

\* The service has not answered yet.
NoResponse == [endpoint |-> "none", code |-> 0, status |-> "none", count |-> 0]

InitStage ==
  /\ stage = [name |-> "none", status |-> 0]
  /\ steps = 0
  /\ cv = NoCV
  /\ job = [j \in Jobs |-> IdleJob]
  /\ loaded = NotLoaded
  /\ response = NoResponse
  /\ env = NoEnv

\* ------------------------------------------------ the DAO calls on their own
\* The frames handed to the DAOs: a Friday and the Monday after it, values
\* from small sets (close stands for a bar's open, high, low, close, volume).
FrameDays == {5, 8}
Values == {0, 1}
ModelIds == {0, 1}

PriceBars == [ticker : Tickers, date : FrameDays, close : Values]
FeatureRows == [ticker : Tickers, date : FrameDays, ret1 : Values]
PredictionRows == [ticker : Tickers, date : FrameDays, y_pred : Values]
EvaluationRows == [ticker : Tickers, target_date : FrameDays, y_true : Values]

\* The frames of the DAO calls hold one row each.
Frames(R) == {<<r>> : r \in R}

\* Each DAO call stamps its documents with the clock it reads
\* (datetime.utcnow()); the clock has moved on by the next call.
InsertPricesCall(df) ==
  /\ calls < MaxCalls
  /\ calls' = calls + 1
  /\ UNCHANGED news
  /\ now' = now + 1
  /\ prices' = insert_prices(prices, df, "nse_bhavcopy", now)
  /\ latest' = [latest EXCEPT !.prices =
       Remember(@, PricesKey,
                [i \in 1..Len(df) |-> prices_record(df[i], "nse_bhavcopy", now)])]
  /\ UNCHANGED <<features, predictions, evaluations>>
  /\ UNCHANGED modelVars
  /\ UNCHANGED stageVars

InsertFeaturesCall(df) ==
  /\ calls < MaxCalls
  /\ calls' = calls + 1
  /\ UNCHANGED news
  /\ now' = now + 1
  /\ features' = insert_features(features, df, now)
  /\ latest' = [latest EXCEPT !.features =
       Remember(@, FeaturesKey, [i \in 1..Len(df) |-> features_record(df[i], now)])]
  /\ UNCHANGED <<prices, predictions, evaluations>>
  /\ UNCHANGED modelVars
  /\ UNCHANGED stageVars

InsertPredictionsCall(df, model_id) ==
  /\ calls < MaxCalls
  /\ calls' = calls + 1
  /\ UNCHANGED news
  /\ now' = now + 1
  /\ predictions' = insert_predictions(predictions, df, model_id, now)
  /\ latest' = [latest EXCEPT !.predictions =
       Remember(@, PredictionsKey,
                [i \in 1..Len(df) |-> predictions_record(df[i], model_id, now)])]
  /\ UNCHANGED <<prices, features, evaluations>>
  /\ UNCHANGED modelVars
  /\ UNCHANGED stageVars

InsertEvaluationsCall(df) ==
  /\ calls < MaxCalls
  /\ calls' = calls + 1
  /\ UNCHANGED news
  /\ now' = now + 1
  /\ evaluations' = insert_evaluations(evaluations, df, now)
  /\ latest' = [latest EXCEPT !.evaluations =
       Remember(@, EvaluationsKey,
                [i \in 1..Len(df) |-> evaluations_record(df[i], now)])]
  /\ UNCHANGED <<prices, features, predictions>>
  /\ UNCHANGED modelVars
  /\ UNCHANGED stageVars


\* --------------------------------------------------------------- ModelsDAO
\* strftime('%Y%m%d_%H%M%S'): the model_id is the clock cut to whole seconds.
ModelIdAt(t) == t \div TicksPerSecond

\* save_model_to_mongodb's model_record; model_data stands for the pickled
\* (model, feat_cols) pair and is named by the number of the training run.
model_record(run, t) ==
  [model_data |-> run, training_date |-> t, is_active |-> TRUE]

\* update_many({"is_active": True}, {"$set": {"is_active": False}}) with no
\* effect: the deactivation step forgotten.
UpdateManyKeepsActive(coll) == coll

\* update_many({"is_active": True}, {"$set": {"is_active": False}})
UpdateManyDeactivate(coll) ==
  [i \in 1..Len(coll) |-> [coll[i] EXCEPT !.is_active = FALSE]]

\* The unique index on model_id (create_indexes) rejects a second document
\* with a model_id already in the collection.
DuplicateModelId(coll, doc) == \E i \in 1..Len(coll) : coll[i].model_id = doc.model_id

\* find_one({"is_active": True}): the first match in natural order, or none.
FindOneActive(coll) ==
  LET hits == {i \in 1..Len(coll) : coll[i].is_active}
  IN  IF hits = {} THEN NoDoc ELSE coll[Min(hits)]

\* ModelsDAO.get_active_model
get_active_model == FindOneActive(models)

ActiveModels == {i \in 1..Len(models) : models[i].is_active}

\* save_model, lines 440-445: the model_id is read off the clock and the
\* document is prepared.
SaveModelBegin(p) ==
  /\ tpc[p] = "idle"
  /\ runs < MaxRuns
  /\ runs' = runs + 1
  /\ tdoc' = [tdoc EXCEPT ![p] =
                prepare_for_mongo(model_record(runs + 1, now)
                                    @@ [model_id |-> ModelIdAt(now)], now)]
  /\ tpc' = [tpc EXCEPT ![p] = "prepared"]
  /\ UNCHANGED <<now, models, lastResult, lastId>>
  /\ UNCHANGED storeVars
  /\ UNCHANGED stageVars

\* save_model, lines 447-451: every active model is deactivated.
SaveModelDeactivate(p) ==
  /\ tpc[p] = "prepared"
  /\ models' = UpdateManyDeactivate(models)
  /\ tpc' = [tpc EXCEPT ![p] = "deactivated"]
  /\ UNCHANGED <<now, tdoc, runs, lastResult, lastId>>
  /\ UNCHANGED storeVars
  /\ UNCHANGED stageVars

\* save_model, lines 453-461: insert_one; a duplicate model_id raises, which
\* save_model turns into DataAccessError.
SaveModelInsert(p) ==
  /\ tpc[p] = "deactivated"
  /\ IF DuplicateModelId(models, tdoc[p])
     THEN /\ models' = models
          /\ lastResult' = "error"
     ELSE /\ models' = Append(models, tdoc[p])
          /\ lastResult' = "ok"
  /\ lastId' = tdoc[p].model_id
  /\ tpc' = [tpc EXCEPT ![p] = "idle"]
  /\ tdoc' = [tdoc EXCEPT ![p] = NoDoc]
  /\ UNCHANGED <<now, runs>>
  /\ UNCHANGED storeVars
  /\ UNCHANGED stageVars

\* Time passes.
Tick ==
  /\ now < MaxClock
  /\ now' = now + 1
  /\ UNCHANGED modelVars
  /\ UNCHANGED storeVars
  /\ UNCHANGED stageVars

InitModels ==
  /\ models = <<>>
  /\ tpc = [p \in Trainers |-> "idle"]
  /\ tdoc = [p \in Trainers |-> NoDoc]
  /\ runs = 0
  /\ lastResult = "none"
  /\ lastId = -1

\* --------------------------------------------------------- pipeline stages
\* date.weekday() of an ordinal: Monday is 0, and ordinal 1 is a Monday.
weekday(d) == (d + 6) % 7

\* collect_prices_nse.py: the market is open on weekdays (weekday() < 5).
IsTradingDay(d) == weekday(d) < 5

TradingDays == {d \in Days : IsTradingDay(d)}

\* The first trading day after d.
NextTradingDay(d) == Min({x \in (d + 1)..(d + 7) : IsTradingDay(x)})

Abs(x) == IF x < 0 THEN -x ELSE x

\* load_model_object's (None, None).
NoModel == 0

\* cursor.limit(n)
Limit(s, n) == SubSeq(s, 1, IF Len(s) < n THEN Len(s) ELSE n)

\* cursor.sort(field, -1): descending, documents with equal values staying in
\* natural order.
SortDesc(coll, field) == SortSeq(coll, LAMBDA a, b : a[field] > b[field])

\* FeaturesDAO.get_latest_features
get_latest_features(lookback_days) ==
  Limit(SortDesc(features, "date"), lookback_days * 1000)

\* PredictionsDAO.get_latest_predictions
get_latest_predictions == Limit(SortDesc(predictions, "prediction_date"), 1000)

\* load_model_object loading the newest artifact, active or not.
load_newest_model ==
  IF models = <<>> THEN NoModel ELSE models[Len(models)].model_data

\* ModelsDAO.load_model_object(): the unpickled model of the active artifact.
load_model_object ==
  LET model_record_ == FindOneActive(models)
  IN  IF model_record_ # NoDoc /\ "model_data" \in DOMAIN model_record_
      THEN model_record_.model_data
      ELSE NoModel

\* active_model.get("model_id", "unknown"): -1 stands for "unknown".
ActiveModelId ==
  IF get_active_model = NoDoc THEN -1 ELSE get_active_model.model_id

\* model.predict on one feature row: some fixed function of the fitted model
\* and the row's features.
ModelPredict(model, row) == (model + row.ret1) % 2

\* The dates of a frame of feature rows.
DatesOf(feats) == {feats[i].date : i \in 1..Len(feats)}

\* feats[feats["date"] == d]
RowsOn(feats, d) == SelectSeq(feats, LAMBDA r : r.date = d)

\* predict.py, lines 70-90: the frame handed to insert_predictions.  Each
\* ticker has one row on the latest date, so the rolling mean of its ret1 is
\* that row's ret1; y_pred_conf = 1 / (1e-6 + |y_pred - mean|) is named by
\* |y_pred - mean|.
predict_out(model, feats, t) ==
  LET today == Max(DatesOf(feats))
      today_rows == RowsOn(feats, today)
  IN  [i \in 1..Len(today_rows) |->
         [date |-> today_rows[i].date,
          ticker |-> today_rows[i].ticker,
          y_pred |-> ModelPredict(model, today_rows[i]),
          y_pred_conf |-> Abs(ModelPredict(model, today_rows[i]) - today_rows[i].ret1),
          prediction_date |-> t]]

\* shap_top_features(model, X_prev) inside the try of lines 109-120: the top
\* features are a function of the model explained (named here by the model
\* itself), or the empty list, 0, when the computation raises.
top_feats(model, shap_ok) == IF shap_ok THEN model ELSE 0

\* mk_reason with the text of its first branch in both.
mk_reason_drivers_only(top) ==
  [text |-> "Key drivers (global SHAP)", drivers |-> top]

\* mk_reason, lines 123-128: the text names the drivers or says that there
\* are none.
mk_reason(top) ==
  IF top # 0
  THEN [text |-> "Key drivers (global SHAP)", drivers |-> top]
  ELSE [text |-> "Model drivers unavailable (insufficient historical data)",
        drivers |-> 0]

\* evaluate_and_explain.py, lines 79-132: the frame handed to
\* insert_evaluations, for feature and prediction frames that passed the guards.
evaluate_merged(feats, preds, model, shap_ok, t) ==
  LET nextday == Max(DatesOf(feats))
      prevday == Max(DatesOf(feats) \ {nextday})
      realized == RowsOn(feats, nextday)
      matched == SelectSeq(preds, LAMBDA p :
                   \E i \in 1..Len(realized) : realized[i].ticker = p.ticker)
      y_true(p) == (CHOOSE r \in Range(realized) : r.ticker = p.ticker).ret1
      reason == mk_reason(top_feats(model, shap_ok))
  IN  [i \in 1..Len(matched) |->
         [k \in (DOMAIN matched[i]) \cup
                {"y_true", "abs_gap", "signed_gap", "gap_reason_text",
                 "evaluation_date", "target_date"} |->
            CASE k = "y_true" -> y_true(matched[i])
              [] k = "abs_gap" -> Abs(y_true(matched[i]) - matched[i].y_pred)
              [] k = "signed_gap" -> y_true(matched[i]) - matched[i].y_pred
              [] k = "gap_reason_text" -> reason
              [] k = "evaluation_date" -> t
              [] k = "target_date" -> nextday
              [] OTHER -> matched[i][k]]]

\* save_model keeping the new artifact alone in the collection.
save_model_replacing(coll, run, t) ==
  [models |-> <<prepare_for_mongo(model_record(run, t) @@ [model_id |-> ModelIdAt(t)], t)>>,
   result |-> "ok", model_id |-> ModelIdAt(t)]

\* ModelsDAO.save_model run from start to end by one caller.
save_model(coll, run, t) ==
  LET doc == prepare_for_mongo(model_record(run, t) @@ [model_id |-> ModelIdAt(t)], t)
      deactivated == UpdateManyDeactivate(coll)
  IN  IF DuplicateModelId(deactivated, doc)
      THEN [models |-> deactivated, result |-> "error", model_id |-> doc.model_id]
      ELSE [models |-> Append(deactivated, doc), result |-> "ok",
            model_id |-> doc.model_id]

\* The order of sort_values(["ticker", "date"]): tickers are strings.
TickerRank(t) == IF t = "A_EQ" THEN 1 ELSE 2
RowBefore(a, b) ==
  \/ TickerRank(a.ticker) < TickerRank(b.ticker)
  \/ a.ticker = b.ticker /\ a.date < b.date

\* df.sort_values(["ticker", "date"])
sort_values(df) == SortSeq(df, LAMBDA a, b : RowBefore(a, b))

\* make_labels with shift(-1) on the whole frame instead of each ticker's
\* group.
make_labels_ungrouped(df) ==
  LET sorted == sort_values(df)
      shifted == [i \in 1..Len(sorted) |->
                    [row |-> sorted[i],
                     y_next |-> IF i < Len(sorted) THEN sorted[i + 1].ret1 ELSE NaN]]
      kept == SelectSeq(shifted, LAMBDA r : r.y_next # NaN)
  IN  [k \in 1..Len(kept) |-> kept[k].row @@ [y_next |-> kept[k].y_next]]

\* train_model.py, make_labels: y_next is the ret1 of the next row of the
\* ticker's group (shift(-1)), undefined on the last row of the group, and
\* dropna drops the rows whose y_next is undefined.
make_labels(df) ==
  LET sorted == sort_values(df)
      shifted == [i \in 1..Len(sorted) |->
                    [row |-> sorted[i],
                     y_next |-> IF i < Len(sorted) /\ sorted[i + 1].ticker = sorted[i].ticker
                                THEN sorted[i + 1].ret1 ELSE NaN]]
      kept == SelectSeq(shifted, LAMBDA r : r.y_next # NaN)
  IN  [k \in 1..Len(kept) |-> kept[k].row @@ [y_next |-> kept[k].y_next]]

\* The training frame of train_model.py, lines 74-86: NoFrame when the run
\* stops at one of the two guards.
NoFrame == <<>>

\* The guard of line 84 one sample lower.
TrainingFrameFrom49 ==
  LET df == get_latest_features(60)
  IN  IF df = <<>> THEN NoFrame
      ELSE IF Len(make_labels(df)) < 49 THEN NoFrame ELSE make_labels(df)

TrainingFrame ==
  LET df == get_latest_features(60)
  IN  IF df = <<>> THEN NoFrame
      ELSE IF Len(make_labels(df)) < 50 THEN NoFrame ELSE make_labels(df)

\* TimeSeriesSplit(n_splits=min(5, len(df)//10)).split(X) on n rows: fold k
\* (1..n_splits) trains on the rows before its test window and tests on the
\* window; the windows are the last n_splits blocks of n // (n_splits + 1)
\* rows.  Row positions count from 1.
n_splits(n) == Min({5, n \div 10})
test_size(n) == n \div (n_splits(n) + 1)
test_start(n, k) == n - (n_splits(n) - k + 1) * test_size(n)
TrainIndices(n, k) == 1..test_start(n, k)
TestIndices(n, k) == (test_start(n, k) + 1)..(test_start(n, k) + test_size(n))

\* The feature rows in the store, as build_features computes them again.
StoredRows ==
  [i \in 1..Len(features) |->
     [ticker |-> features[i].ticker, date |-> features[i].date, ret1 |-> features[i].ret1]]

\* A stage is a process of its own; a run takes a second of the clock.
\* The job the stage is a script of, if any, goes on from its exit status,
\* and what a predict process held in memory is gone at its exit.  A run of
\* the whole pipeline is followed to its end.
StageStep(name, status) ==
  /\ steps < (IF job["main"].status = "running" THEN Len(pipeline_steps) ELSE MaxSteps)
  /\ steps' = steps + 1
  /\ now' = now + TicksPerSecond
  /\ stage' = [name |-> name, status |-> status]
  /\ job' = [j \in Jobs |-> IF j \in ParentsOf(name) THEN AfterScript(j, status) ELSE job[j]]
  /\ loaded' = IF name = "predict" THEN NotLoaded ELSE loaded
  /\ UNCHANGED <<cv, response, env>>

\* build_features.py: the rows of all the history are computed again and
\* upserted, with the rows of a new trading day d (for the tickers that have
\* one) or without any (a re-run).  The prices the rows are computed from are
\* left aside here.
BuildFeaturesRun(newRows) ==
  /\ StageStep("features", 0)
  /\ features' = insert_features(features, sort_values(StoredRows \o newRows), now)
  /\ UNCHANGED <<prices, predictions, evaluations, latest, calls, news>>
  /\ UNCHANGED modelVars

\* The rows a new trading day can bring: a later day than any stored, a
\* non-empty set of tickers, one ret1 each.
TickerSeq == <<"A_EQ", "B_EQ">>
NewDayRows ==
  {<<>>} \cup
  {SelectSeq([i \in 1..Len(TickerSeq) |->
                [ticker |-> TickerSeq[i], date |-> d, ret1 |-> r[TickerSeq[i]]]],
             LAMBDA row : row.ticker \in T) :
     d \in {x \in TradingDays : \A f \in Range(features) : f.date < x},
     T \in (SUBSET Tickers) \ {{}},
     r \in [Tickers -> Values]}

\* train_model.py run from start to end; its cross-validation writes nothing
\* and is followed fold by fold in the cross-validation specification.
TrainRun ==
  /\ runs < MaxRuns
  /\ IF TrainingFrame = NoFrame
     THEN /\ StageStep("train", 1)
          /\ UNCHANGED <<models, lastResult, lastId>>
     ELSE LET saved == save_model(models, runs + 1, now)
          IN  /\ models' = saved.models
              /\ lastResult' = saved.result
              /\ lastId' = saved.model_id
              /\ StageStep("train", IF saved.result = "ok" THEN 0 ELSE 1)
  /\ runs' = runs + 1
  /\ UNCHANGED <<tpc, tdoc>>
  /\ UNCHANGED storeVars

\* The training run at its start: the frame is loaded and labelled.
TrainLoad ==
  /\ cv.at = "idle"
  /\ IF TrainingFrame = NoFrame
     THEN /\ cv' = [cv EXCEPT !.at = "failed"]
          /\ stage' = [name |-> "train", status |-> 1]
     ELSE /\ cv' = [cv EXCEPT !.at = "cv", !.df = TrainingFrame]
          /\ UNCHANGED stage
  /\ UNCHANGED <<now, steps, job, loaded, response, env>>
  /\ UNCHANGED modelVars
  /\ UNCHANGED storeVars

\* One turn of the cross-validation loop, lines 99-105.
TrainFold ==
  /\ cv.at = "cv"
  /\ cv.fold < n_splits(Len(cv.df))
  /\ cv' = [cv EXCEPT !.fold = @ + 1,
                      !.tr = TrainIndices(Len(cv.df), cv.fold + 1),
                      !.te = TestIndices(Len(cv.df), cv.fold + 1)]
  /\ UNCHANGED <<now, steps, stage, job, loaded, response, env>>
  /\ UNCHANGED modelVars
  /\ UNCHANGED storeVars

\* After the last fold the final model is fitted and published, lines 112-116.
TrainPublish ==
  /\ cv.at = "cv"
  /\ cv.fold = n_splits(Len(cv.df))
  /\ LET saved == save_model(models, runs + 1, now)
     IN  /\ models' = saved.models
         /\ lastResult' = saved.result
         /\ lastId' = saved.model_id
         /\ stage' = [name |-> "train", status |-> IF saved.result = "ok" THEN 0 ELSE 1]
  /\ runs' = runs + 1
  /\ cv' = [cv EXCEPT !.at = "done"]
  /\ UNCHANGED <<now, steps, tpc, tdoc, job, loaded, response, env>>
  /\ UNCHANGED storeVars

\* predict.py
PredictRun ==
  /\ LET model == load_model_object
         feats == get_latest_features(5)
     IN  IF model = NoModel \/ feats = <<>>
         THEN /\ StageStep("predict", 1)
              /\ UNCHANGED predictions
         ELSE /\ StageStep("predict", 0)
              /\ predictions' = insert_predictions(predictions,
                                   predict_out(model, feats, now), ActiveModelId, now)
  /\ UNCHANGED <<prices, features, evaluations, latest, calls, news>>
  /\ UNCHANGED modelVars

\* The guards of evaluate_and_explain.py, lines 61-97.
EvaluateFails(feats, preds, model) ==
  \/ feats = <<>>
  \/ preds = <<>>
  \/ model = NoModel
  \/ Cardinality(DatesOf(feats)) < 2
  \/ evaluate_merged(feats, preds, model, TRUE, 0) = <<>>

\* evaluate_and_explain.py; the SHAP computation succeeds or raises.
EvaluateRun(shap_ok) ==
  /\ LET feats == get_latest_features(5)
         preds == get_latest_predictions
         model == load_model_object
     IN  IF EvaluateFails(feats, preds, model)
         THEN /\ StageStep("evaluate", 1)
              /\ UNCHANGED evaluations
         ELSE /\ StageStep("evaluate", 0)
              /\ evaluations' = insert_evaluations(evaluations,
                                   evaluate_merged(feats, preds, model, shap_ok, now), now)
  /\ UNCHANGED <<prices, features, predictions, latest, calls, news>>
  /\ UNCHANGED modelVars

\* No other trainer is inside save_model.
Alone(p) == \A q \in Trainers \ {p} : tpc[q] = "idle"

\* ------------------------------------------------ concurrent training runs
InitPublish == now = 0 /\ InitModels /\ InitStores /\ InitStage

NextPublish ==
  \/ Tick
  \/ \E p \in Trainers : SaveModelBegin(p)
  \/ \E p \in Trainers : SaveModelDeactivate(p)
  \/ \E p \in Trainers : SaveModelInsert(p)

SpecPublish == InitPublish /\ [][NextPublish]_vars

\* ------------------------------------------------ sequential training runs
SeqBegin(p) == Alone(p) /\ SaveModelBegin(p)

NextPublishSeq ==
  \/ Tick
  \/ \E p \in Trainers : SeqBegin(p)
  \/ \E p \in Trainers : SaveModelDeactivate(p)
  \/ \E p \in Trainers : SaveModelInsert(p)

SpecPublishSeq == InitPublish /\ [][NextPublishSeq]_vars

AllIdle == \A p \in Trainers : tpc[p] = "idle"

\* ------------------------------------------------ the DAO calls on their own
InitDAO == now = 0 /\ InitModels /\ InitStores /\ InitStage

NextDAO ==
  \/ \E df \in Frames(PriceBars) : InsertPricesCall(df)
  \/ \E df \in Frames(FeatureRows) : InsertFeaturesCall(df)
  \/ \E df \in Frames(PredictionRows), m \in ModelIds : InsertPredictionsCall(df, m)
  \/ \E df \in Frames(EvaluationRows) : InsertEvaluationsCall(df)

SpecDAO == InitDAO /\ [][NextDAO]_vars

\* ------------------------------------------------------ the daily pipeline
\* The deployment after its first training run: the feature rows of the
\* history the model was fitted on (both tickers, the trading days from
\* Thursday 4 to Friday 40) are in the store, the model is active, and no
\* prediction has been made yet.  Stages run one at a time.
HistoryFrame(t, first, n) ==
  SubSeq(SelectSeq([i \in 1..(2 * n + 5) |->
                      [ticker |-> t, date |-> first + i - 1, ret1 |-> (first + i - 1) % 2]],
                   LAMBDA r : IsTradingDay(r.date)),
         1, n)

\* The n of the trading days from Thursday 4 to Friday 40.
HistoryRows ==
  LET n == Cardinality({d \in TradingDays : d <= 40})
  IN  HistoryFrame("A_EQ", 4, n) \o HistoryFrame("B_EQ", 4, n)

Init ==
  /\ now = TicksPerSecond
  /\ models = save_model(<<>>, 1, 0).models
  /\ tpc = [p \in Trainers |-> "idle"]
  /\ tdoc = [p \in Trainers |-> NoDoc]
  /\ runs = 1
  /\ lastResult = "ok"
  /\ lastId = ModelIdAt(0)
  /\ prices = <<>>
  /\ features = insert_features(<<>>, HistoryRows, 0)
  /\ predictions = <<>>
  /\ evaluations = <<>>
  /\ latest = [c \in {"prices", "features", "predictions", "evaluations"} |-> {}]
  /\ calls = 0
  /\ news = <<>>
  /\ InitStage

Next ==
  \/ \E newRows \in NewDayRows : BuildFeaturesRun(newRows)
  \/ TrainRun
  \/ PredictRun
  \/ \E shap_ok \in BOOLEAN : EvaluateRun(shap_ok)

Spec == Init /\ [][Next]_vars

\* ------------------------------------------------- predict from any store
\* The store calls predict.py makes.
StoreCalls ==
  {"load_model_object", "get_latest_features", "get_active_model",
   "insert_predictions"}

\* predict.py when one of its store calls fails.  load_model_object answers
\* (None, None), get_latest_features the empty frame and get_active_model {}
\* from their except branches; insert_predictions raises DataAccessError,
\* which the except of line 113 turns into exit(1).
PredictRunFaulty(fault) ==
  /\ LET model == IF fault = "load_model_object" THEN NoModel ELSE load_model_object
         feats == IF fault = "get_latest_features" THEN <<>> ELSE get_latest_features(5)
         model_id == IF fault = "get_active_model" THEN -1 ELSE ActiveModelId
     IN  IF model = NoModel \/ feats = <<>> \/ fault = "insert_predictions"
         THEN /\ StageStep("predict", 1)
              /\ UNCHANGED predictions
         ELSE /\ StageStep("predict", 0)
              /\ predictions' = insert_predictions(predictions,
                                   predict_out(model, feats, now), model_id, now)
  /\ UNCHANGED <<prices, features, evaluations, latest, calls, news>>
  /\ UNCHANGED modelVars

\* The stores predict.py may find: no artifact, one active artifact, or one
\* artifact left inactive by a failed save_model; no feature row, or the
\* history.
InitPredict ==
  /\ now = TicksPerSecond
  /\ models \in {<<>>, save_model(<<>>, 1, 0).models,
                 UpdateManyDeactivate(save_model(<<>>, 1, 0).models)}
  /\ tpc = [p \in Trainers |-> "idle"]
  /\ tdoc = [p \in Trainers |-> NoDoc]
  /\ runs = Len(models)
  /\ lastResult = "ok"
  /\ lastId = ModelIdAt(0)
  /\ prices = <<>>
  /\ features \in {<<>>, insert_features(<<>>, HistoryRows, 0)}
  /\ predictions = <<>>
  /\ evaluations = <<>>
  /\ latest = [c \in {"prices", "features", "predictions", "evaluations"} |-> {}]
  /\ calls = 0
  /\ news = <<>>
  /\ InitStage

NextPredict ==
  \/ TrainRun
  \/ PredictRun
  \/ \E fault \in StoreCalls : PredictRunFaulty(fault)
  \/ \E shap_ok \in BOOLEAN : EvaluateRun(shap_ok)

SpecPredict == InitPredict /\ [][NextPredict]_vars

\* ------------------------------------------------------- the feature stage
\* np.log(x).diff(k) of two closes: named by their difference, undefined when
\* one of them is.
Diff(a, b) == IF a = NaN \/ b = NaN THEN NaN ELSE a - b

\* x.rolling(w) at row i: defined when the window has w rows, all defined.
RollingDefined(x, i, w) == i >= w /\ \A j \in (i - w + 1)..i : x[j] # NaN

\* The standard deviation of the window, named by its spread (both are zero
\* exactly when all values of the window are equal).
RollingStd(x, i, w) ==
  IF RollingDefined(x, i, w)
  THEN Max({x[j] : j \in (i - w + 1)..i}) - Min({x[j] : j \in (i - w + 1)..i})
  ELSE NaN

\* (close - rolling(w).mean()) / rolling(w).std(), named by the distance of the
\* close from the lowest of the window: undefined in the warm-up and when the
\* deviation is zero (0 / 0).
ZScore(x, i, w) ==
  IF RollingStd(x, i, w) = NaN \/ RollingStd(x, i, w) = 0 THEN NaN
  ELSE x[i] - Min({x[j] : j \in (i - w + 1)..i})

\* PricesDAO.get_all_prices()
get_all_prices == sort_values(prices)

\* NewsDAO.get_all_news(): sorted by date; the frame without columns when the
\* collection is empty.
get_all_news == SortSeq(news, LAMBDA a, b : a.date < b.date)

\* The guard of lines 26-29 one bar lower.
TooShortBelow14(df) == Len(df) < 14

\* build_features, lines 26-29: a ticker with fewer than 15 bars is skipped.
TooShort(df) == Len(df) < 15

\* The neutral constants of the fallbacks.
NeutralRSI == 50
NeutralMACD == 0
NeutralADX == 25

\* window_rsi and window_adx, lines 36-37.
window_rsi(df) == Min({14, Len(df) - 1})

\* RSIIndicator(close, window).rsi() at row i: the indicator is an
\* exponential mean that needs `window` rows and is undefined before (the
\* library fills nothing unless asked to); where defined it is named by the
\* last move of the close.
RSI(close, window, i) ==
  IF i < window \/ Diff(close[i], close[i - 1]) = NaN THEN NaN
  ELSE 50 + 10 * Diff(close[i], close[i - 1])

\* Lines 39-42: the indicator as the library returns it, or the neutral
\* value for the whole column when the window is not positive.
rsi14(close, window, i) ==
  IF window > 0 THEN RSI(close, window, i) ELSE NeutralRSI

\* MACD(close).macd() at row i, lines 44-47: the difference of the 12- and
\* the 26-row exponential means, undefined before row 26; where defined it
\* is named by the move of the close over the slow window.  The call raises
\* on no frame of this model.
macd(close, i) ==
  IF i < 26 THEN NaN ELSE Diff(close[i], close[i - 25])

\* ADXIndicator(high, low, close, window).adx() at row i, lines 49-55: on a
\* frame of fewer than 2 * window rows the library raises and the except
\* writes the neutral value to the whole column; on a longer frame the
\* indicator is 0 in its warm-up rows and then the index, named here 20.
adx14(n, window, i) ==
  IF ~(window > 0 /\ n >= window) \/ n < 2 * window THEN NeutralADX
  ELSE IF i < 2 * window THEN 0 ELSE 20

\* build_features, lines 31-59, on the bars of one ticker sorted by date.
ticker_features(df) ==
  LET close == [i \in 1..Len(df) |-> df[i].close]
      ret1 == [i \in 1..Len(df) |-> IF i = 1 THEN NaN ELSE Diff(close[i], close[i - 1])]
  IN  [i \in 1..Len(df) |->
         df[i] @@ [ret1 |-> ret1[i],
                   ret5 |-> IF i <= 5 THEN NaN ELSE Diff(close[i], close[i - 5]),
                   vol20 |-> RollingStd(ret1, i, 20),
                   rsi14 |-> rsi14(close, window_rsi(df), i),
                   macd |-> macd(close, i),
                   adx14 |-> adx14(Len(df), window_rsi(df), i),
                   z_close_20 |-> ZScore(close, i, 20)]]

\* f.dropna(subset=['ret1']) without its effect.
dropna_nothing(f) == f

\* f.dropna(subset=['ret1'])
dropna_ret1(f) == SelectSeq(f, LAMBDA r : r.ret1 # NaN)

RECURSIVE SumOf(_)
SumOf(x) == IF x = <<>> THEN 0 ELSE Head(x) + SumOf(Tail(x))

\* news.groupby(["date"]).agg(mean, max, count) merged on the date of a row,
\* and the fillna of the three fields for a date without samples.  The mean
\* is the whole part of the quotient.
market_sentiment(news_df, date) ==
  LET samples == SelectSeq(news_df, LAMBDA a : a.date = date)
      sentiment == [i \in 1..Len(samples) |-> samples[i].sentiment]
  IN  IF samples = <<>>
      THEN [market_news_sent_mean |-> 0, market_news_sent_max |-> 0,
            market_news_count |-> 0]
      ELSE [market_news_sent_mean |-> SumOf(sentiment) \div Len(sentiment),
            market_news_sent_max |-> Max(Range(sentiment)),
            market_news_count |-> Len(sentiment)]

\* The loop of lines 23-59: the frames of the tickers that are not skipped, in
\* the order of groupby("ticker").
RECURSIVE feats_from(_, _)
feats_from(prices_df, n) ==
  IF n > Len(TickerSeq) THEN <<>>
  ELSE LET df == SelectSeq(prices_df, LAMBDA r : r.ticker = TickerSeq[n])
       IN  (IF df = <<>> \/ TooShort(df) THEN <<>> ELSE ticker_features(df))
             \o feats_from(prices_df, n + 1)

\* build_features(prices, news).  news.groupby(["date"]) raises KeyError on
\* the frame without columns that get_all_news returns for an empty
\* collection.
build_features(prices_df, news_df) ==
  IF news_df = <<>> THEN [raised |-> TRUE, out |-> <<>>]
  ELSE LET f == dropna_ret1(feats_from(prices_df, 1))
       IN  [raised |-> FALSE,
            out |-> [i \in 1..Len(f) |-> f[i] @@ market_sentiment(news_df, f[i].date)]]

\* build_features.py run from the stores: it stops with status 1 without
\* prices or without output rows, and dies of the exception build_features
\* raises.
BuildFeaturesMain ==
  /\ LET prices_df == get_all_prices
         built == build_features(prices_df, get_all_news)
     IN  IF prices_df = <<>> \/ built.raised \/ built.out = <<>>
         THEN /\ StageStep("features", 1)
              /\ UNCHANGED features
         ELSE /\ StageStep("features", 0)
              /\ features' = insert_features(features, built.out, now)
  /\ UNCHANGED <<prices, predictions, evaluations, latest, calls, news>>
  /\ UNCHANGED modelVars

\* NewsDAO.insert_news
NewsKey == {"date", "ticker", "headline"}
news_record(r, data_source, t) ==
  SetField(SetField(prepare_for_mongo(r, t), "data_source", data_source),
           "dep_type", DEP_TYPE)
insert_news(coll, df, data_source, t) ==
  bulk_write(coll, NewsKey,
             [i \in 1..Len(df) |-> news_record(df[i], data_source, t)])

\* The latest date of the prices store.
LatestPriceDate == Max({prices[i].date : i \in 1..Len(prices)})

\* The close of a ticker's bar of a day, as the exchange publishes it.
CloseOn(d) == 1 + (d % 2)

\* collect_prices_nse.py: the bars of the next trading day, one per ticker,
\* are upserted.
CollectPricesMain ==
  /\ prices # <<>>
  /\ NextTradingDay(LatestPriceDate) <= MaxDay
  /\ StageStep("collect_prices", 0)
  /\ prices' = insert_prices(prices,
        [i \in 1..Len(TickerSeq) |->
           [ticker |-> TickerSeq[i], date |-> NextTradingDay(LatestPriceDate),
            close |-> CloseOn(NextTradingDay(LatestPriceDate))]],
        "nse_bhavcopy", now)
  /\ UNCHANGED <<features, predictions, evaluations, latest, calls, news>>
  /\ UNCHANGED modelVars

\* collect_news.py: one headline of the latest price date, with its score.
CollectNewsMain ==
  /\ prices # <<>>
  /\ StageStep("collect_news", 0)
  /\ news' = insert_news(news,
        <<[date |-> LatestPriceDate, ticker |-> "_MARKET_",
           headline |-> "h", sentiment |-> 2]>>, "rss_feeds", now)
  /\ UNCHANGED <<prices, features, predictions, evaluations, latest, calls>>
  /\ UNCHANGED modelVars

\* The bars of a ticker: n trading days from Monday 1 on, the close of bar
\* `gap` (if any) missing from the exchange's file.
BarHistory(t, n, gap) ==
  LET days == HistoryFrame(t, 1, n)
  IN  [i \in 1..n |-> [ticker |-> t, date |-> days[i].date,
                       close |-> IF i = gap THEN NaN ELSE CloseOn(days[i].date)]]

BarCounts == {14, 15, MaxBars}
Gaps == {0, 3}

\* The headlines collected before: none, one of Tuesday 2, or two of Tuesday 2
\* and one of Wednesday 3.
NewsFrames ==
  { <<>>,
    <<[date |-> 2, ticker |-> "_MARKET_", headline |-> "a", sentiment |-> 2]>>,
    <<[date |-> 2, ticker |-> "_MARKET_", headline |-> "a", sentiment |-> 2],
      [date |-> 2, ticker |-> "_MARKET_", headline |-> "b", sentiment |-> 4],
      [date |-> 3, ticker |-> "_MARKET_", headline |-> "c", sentiment |-> -2]>> }

InitFeatures ==
  /\ now = TicksPerSecond
  /\ InitModels
  /\ InitStage
  /\ features = <<>>
  /\ predictions = <<>>
  /\ evaluations = <<>>
  /\ latest = [c \in {"prices", "features", "predictions", "evaluations"} |-> {}]
  /\ calls = 0
  /\ \E na \in BarCounts, nb \in BarCounts, gap \in Gaps :
       prices = insert_prices(<<>>,
                   BarHistory("A_EQ", na, gap) \o BarHistory("B_EQ", nb, 0),
                   "nse_bhavcopy", 0)
  /\ \E df \in NewsFrames : news = insert_news(<<>>, df, "rss_feeds", 0)

NextFeatures == CollectPricesMain \/ CollectNewsMain \/ BuildFeaturesMain

SpecFeatures == InitFeatures /\ [][NextFeatures]_vars

\* ------------------------------------------------------------ the scheduler
\* build_universe.py: the listing is fetched and saved, or the fetch raises.
\* The universe is not among the stores of this model.
BuildUniverseMain(fetched) ==
  /\ StageStep("universe", IF fetched THEN 0 ELSE 1)
  /\ UNCHANGED storeVars
  /\ UNCHANGED modelVars

\* collect_prices_nse.py when the bhavcopy of neither day can be fetched:
\* collect_all_prices raises RuntimeError and nothing is saved.
CollectPricesFails ==
  /\ StageStep("collect_prices", 1)
  /\ UNCHANGED storeVars
  /\ UNCHANGED modelVars

\* predict.py, lines 58-90: the model object and the features are read and
\* the frame of predictions is computed.
PredictLoad ==
  /\ loaded.at = "idle"
  /\ LET model == load_model_object
         feats == get_latest_features(5)
     IN  IF model = NoModel \/ feats = <<>>
         THEN StageStep("predict", 1)
         ELSE /\ loaded' = [at |-> "loaded", model |-> model,
                            out |-> predict_out(model, feats, now)]
              /\ UNCHANGED <<now, stage, steps, cv, job, response, env>>
  /\ UNCHANGED storeVars
  /\ UNCHANGED modelVars

\* predict.py, lines 92-98: the id of the model that is active now is read
\* and the predictions are saved under it.
PredictSave ==
  /\ loaded.at = "loaded"
  /\ StageStep("predict", 0)
  /\ predictions' = insert_predictions(predictions, loaded.out, ActiveModelId, now)
  /\ UNCHANGED <<prices, features, evaluations, latest, calls, news>>
  /\ UNCHANGED modelVars

\* The script `name`, run as a process from its start to its exit (predict.py
\* in its two steps).
RunScript(name) ==
  \/ name = "universe" /\ \E fetched \in BOOLEAN : BuildUniverseMain(fetched)
  \/ name = "collect_prices" /\ (CollectPricesMain \/ CollectPricesFails)
  \/ name = "collect_news" /\ CollectNewsMain
  \/ name = "features" /\ BuildFeaturesMain
  \/ name = "train" /\ TrainRun
  \/ name = "predict" /\ (PredictLoad \/ PredictSave)
  \/ name = "evaluate" /\ \E shap_ok \in BOOLEAN : EvaluateRun(shap_ok)

\* The cron trigger of job j fires: the scheduler hands the job to a thread
\* of its executor, unless a run of the same job is still going.  Nothing in
\* scheduler.py makes a job wait for the run of another job.
JobFire(j) ==
  /\ job[j].status # "running"
  /\ job' = [job EXCEPT ![j] = [at |-> 1, status |-> "running"]]
  /\ UNCHANGED <<now, stage, steps, cv, loaded, response, env>>
  /\ UNCHANGED storeVars
  /\ UNCHANGED modelVars

\* run(py) of job j: the script the job is at runs as a child process.
JobRun(j) ==
  /\ job[j].status = "running"
  /\ RunScript(Scripts(j)[job[j].at])

\* The stores of a day on which the pipeline has run before: the bars of the
\* trading days up to Friday 40 for both tickers, one headline, the feature
\* rows built from them and one active artifact.
InitScheduler ==
  /\ now = TicksPerSecond
  /\ models = save_model(<<>>, 1, 0).models
  /\ tpc = [p \in Trainers |-> "idle"]
  /\ tdoc = [p \in Trainers |-> NoDoc]
  /\ runs = 1
  /\ lastResult = "ok"
  /\ lastId = ModelIdAt(0)
  /\ LET n == Cardinality({d \in 1..40 : IsTradingDay(d)})
     IN  prices = insert_prices(<<>>, BarHistory("A_EQ", n, 0) \o BarHistory("B_EQ", n, 0),
                                "nse_bhavcopy", 0)
  /\ news = insert_news(<<>>,
        <<[date |-> 2, ticker |-> "_MARKET_", headline |-> "a", sentiment |-> 2]>>,
        "rss_feeds", 0)
  /\ features = insert_features(<<>>, build_features(get_all_prices, get_all_news).out, 0)
  /\ predictions = <<>>
  /\ evaluations = <<>>
  /\ latest = [c \in {"prices", "features", "predictions", "evaluations"} |-> {}]
  /\ calls = 0
  /\ InitStage

NextScheduler ==
  \/ \E j \in SchedulerJobs : JobFire(j)
  \/ \E j \in SchedulerJobs : JobRun(j)

SpecScheduler == InitScheduler /\ [][NextScheduler]_vars

\* ------------------------------------------------------ the pipeline runner
\* run_production_pipeline.py, main, lines 53-64: the runner exits 1 at once
\* when it is not started in the root directory.
RunnerStart(in_root) ==
  /\ job["main"].status = "idle"
  /\ job' = [job EXCEPT !["main"] =
               IF in_root THEN [at |-> 1, status |-> "running"]
               ELSE [at |-> 0, status |-> "failed"]]
  /\ UNCHANGED <<now, stage, steps, cv, loaded, response, env>>
  /\ UNCHANGED storeVars
  /\ UNCHANGED modelVars

\* The loop of lines 119-127: run_command on the step the runner is at.
RunnerRun == JobRun("main")

\* The exit status of the runner once it has ended (lines 47, 139-164).
RunnerExit == IF job["main"].status = "done" THEN 0 ELSE 1

\* The predictions a run of the day before has left for Friday 40.
EarlierPredictions ==
  [i \in 1..Len(TickerSeq) |->
     [date |-> 40, ticker |-> TickerSeq[i], y_pred |-> 0, y_pred_conf |-> 1,
      prediction_date |-> 0]]

\* The stores the runner may find: 14 bars of a ticker or its bars up to
\* Friday 40, no headline or some, no artifact or one, no prediction or
\* those of Friday 40; no feature row yet.
InitRunner ==
  /\ now = TicksPerSecond
  /\ models \in {<<>>, save_model(<<>>, 1, 0).models}
  /\ tpc = [p \in Trainers |-> "idle"]
  /\ tdoc = [p \in Trainers |-> NoDoc]
  /\ runs = Len(models)
  /\ lastResult = "ok"
  /\ lastId = ModelIdAt(0)
  /\ \E na \in {14, Cardinality({d \in 1..40 : IsTradingDay(d)})},
        nb \in {14, Cardinality({d \in 1..40 : IsTradingDay(d)})} :
       prices = insert_prices(<<>>, BarHistory("A_EQ", na, 0) \o BarHistory("B_EQ", nb, 0),
                              "nse_bhavcopy", 0)
  /\ \E df \in NewsFrames : news = insert_news(<<>>, df, "rss_feeds", 0)
  /\ features = <<>>
  /\ predictions \in {<<>>, insert_predictions(<<>>, EarlierPredictions, 0, 0)}
  /\ evaluations = <<>>
  /\ latest = [c \in {"prices", "features", "predictions", "evaluations"} |-> {}]
  /\ calls = 0
  /\ InitStage

NextRunner ==
  \/ \E in_root \in BOOLEAN : RunnerStart(in_root)
  \/ RunnerRun

SpecRunner == InitRunner /\ [][NextRunner]_vars

\* ---------------------------------------------------------- the HTTP service
\* EvaluationsDAO.get_latest_evaluations
get_latest_evaluations(days) ==
  Limit(SortDesc(evaluations, "target_date"), days * 100)

\* serve.py, predict_today
predict_today ==
  LET df == get_latest_predictions
  IN  IF df = <<>>
      THEN [endpoint |-> "/predict_today", code |-> 200,
            status |-> "no_predictions", count |-> 0]
      ELSE [endpoint |-> "/predict_today", code |-> 200, status |-> "ok",
            count |-> Len(df)]

\* explain_gap without its guard on the empty frame: ev["target_date"] raises
\* KeyError on the frame without columns, which the except of line 156 turns
\* into HTTP 500.
explain_gap_unguarded ==
  LET ev == get_latest_evaluations(5)
  IN  IF ev = <<>>
      THEN [endpoint |-> "/explain_gap", code |-> 500, status |-> "error", count |-> 0]
      ELSE [endpoint |-> "/explain_gap", code |-> 200, status |-> "ok",
            count |-> Len(SelectSeq(ev, LAMBDA r :
                         r.target_date = Max({ev[i].target_date : i \in 1..Len(ev)})))]

\* serve.py, explain_gap: the rows of the latest target_date.
explain_gap ==
  LET ev == get_latest_evaluations(5)
  IN  IF ev = <<>>
      THEN [endpoint |-> "/explain_gap", code |-> 200, status |-> "no_eval", count |-> 0]
      ELSE [endpoint |-> "/explain_gap", code |-> 200, status |-> "ok",
            count |-> Len(SelectSeq(ev, LAMBDA r :
                         r.target_date = Max({ev[i].target_date : i \in 1..Len(ev)})))]

\* serve.py, accuracy_by_stock: total_stocks, the number of tickers with an
\* evaluation, is the count.
accuracy_by_stock(window) ==
  LET ev == get_latest_evaluations(Max({window, 30}))
  IN  IF ev = <<>>
      THEN [endpoint |-> "/accuracy_by_stock", code |-> 200, status |-> "no_eval",
            count |-> 0]
      ELSE [endpoint |-> "/accuracy_by_stock", code |-> 200, status |-> "ok",
            count |-> Cardinality({ev[i].ticker : i \in 1..Len(ev)})]

\* The service answers a request; it writes to no store.
Respond(r) ==
  /\ response' = r
  /\ UNCHANGED <<now, stage, steps, cv, job, loaded, env>>
  /\ UNCHANGED storeVars
  /\ UNCHANGED modelVars

GetPredictToday == Respond(predict_today)
GetExplainGap == Respond(explain_gap)
GetAccuracyByStock(window) == Respond(accuracy_by_stock(window))

\* The windows of the requests: one row a ticker, and the default.
Windows == {1, 60}

\* The service beside the pipeline whose results it shows.
NextServe ==
  \/ PredictRun
  \/ \E newRows \in NewDayRows : BuildFeaturesRun(newRows)
  \/ \E shap_ok \in BOOLEAN : EvaluateRun(shap_ok)
  \/ GetPredictToday
  \/ GetExplainGap
  \/ \E window \in Windows : GetAccuracyByStock(window)

SpecServe == Init /\ [][NextServe]_vars

\* ------------------------------------------------------- the environments
\* config.py, switch_environment: DEP_TYPE is set, the connections are
\* closed and the db_config of config.py is bound to a new DatabaseConfig.
\* The db_config that connection.py imported stays the object it was.
switch_environment(e, new_dep_type) ==
  [e EXCEPT !.DEP_TYPE = new_dep_type,
            !.sync_db = "None",
            !.indexes_created = FALSE,
            !.config = DatabaseName(new_dep_type)]

\* DatabaseManager.connect_sync / get_sync_db: a closed connection is opened
\* on the database named by the db_config of connection.py.
connect_sync(e) ==
  IF e.sync_db = "None" THEN [e EXCEPT !.sync_db = e.imported] ELSE e

\* DatabaseManager.create_indexes
create_indexes(e) ==
  IF e.indexes_created THEN e
  ELSE [connect_sync(e) EXCEPT !.indexed = @ \cup {connect_sync(e).sync_db},
                               !.indexes_created = TRUE]

\* db.initialize_database: test_connection, then create_indexes.
initialize_database(e) == create_indexes(connect_sync(e))

\* build_universe_mongo.build_and_save_universe: the mock listing when
\* DEP_TYPE is mock and the real one otherwise (nothing is saved when the
\* real one cannot be fetched), saved by UniverseDAO.insert_securities in
\* the database of get_sync_db().
build_and_save_universe(e, fetched) ==
  LET c == initialize_database(e)
      d == connect_sync(c)
  IN  IF e.DEP_TYPE = "mock" THEN [d EXCEPT !.universe[d.sync_db] = "mock"]
      ELSE IF fetched THEN [d EXCEPT !.universe[d.sync_db] = "real"]
      ELSE c

\* DatabaseManager.clean_database: the database of the environment is dropped
\* by its name.
clean_database(e, environment) ==
  [connect_sync(e) EXCEPT !.indexed = @ \ {DatabaseName(environment)},
                          !.universe[DatabaseName(environment)] = "none"]

\* A command of manage_environments.py, or build_universe_mongo.py, run as a
\* process of its own from a shell with DEP_TYPE = dep_type.
Command(e) ==
  /\ env' = e
  /\ UNCHANGED <<now, stage, steps, cv, job, loaded, response>>
  /\ UNCHANGED storeVars
  /\ UNCHANGED modelVars

\* manage_environments.py status: the databases are listed over a
\* connection of the process.
ShowEnvironmentStatus(dep_type) ==
  Command(connect_sync(StartProcess(env, "status", dep_type)))

\* manage_environments.py create --env env_type
CreateEnvironment(dep_type, env_type) ==
  Command(initialize_database(switch_environment(StartProcess(env, "create", dep_type), env_type)))

\* manage_environments.py populate-mock
PopulateMockEnvironment(dep_type) ==
  Command(build_and_save_universe(switch_environment(StartProcess(env, "populate-mock", dep_type), "mock"), TRUE))

\* manage_environments.py switch --env env_type
SwitchToEnvironment(dep_type, env_type) ==
  Command(switch_environment(StartProcess(env, "switch", dep_type), env_type))

\* manage_environments.py clean --env env_type --confirm
CleanEnvironment(dep_type, env_type) ==
  Command(clean_database(StartProcess(env, "clean", dep_type), env_type))

\* pipeline/build_universe_mongo.py
BuildUniverseMongoMain(dep_type, fetched) ==
  Command(build_and_save_universe(StartProcess(env, "build_universe_mongo", dep_type), fetched))

InitEnvironment == now = 0 /\ InitModels /\ InitStores /\ InitStage

NextEnvironment ==
  \/ \E dep_type \in DepTypes : ShowEnvironmentStatus(dep_type)
  \/ \E dep_type \in DepTypes, env_type \in DepTypes : CreateEnvironment(dep_type, env_type)
  \/ \E dep_type \in DepTypes : PopulateMockEnvironment(dep_type)
  \/ \E dep_type \in DepTypes, env_type \in DepTypes : SwitchToEnvironment(dep_type, env_type)
  \/ \E dep_type \in DepTypes, env_type \in DepTypes : CleanEnvironment(dep_type, env_type)
  \/ \E dep_type \in DepTypes, fetched \in BOOLEAN : BuildUniverseMongoMain(dep_type, fetched)

SpecEnvironment == InitEnvironment /\ [][NextEnvironment]_vars

\* --------------------------------------------------- the cross-validation
\* Feature histories of two tickers: each ticker was listed on one of two
\* Mondays and has a short, a middle or a long run of rows since; 25 and 26
\* rows per ticker are the histories around the trainer's 50 labelled samples.
HistoryStarts == {1, 64}
HistoryLengths == {2, 25, 26, MaxHistory \div 2 + 1, MaxHistory}

\* The training run starts on a deployment that has published nothing yet, or
\* one artifact a second ago.
InitCV ==
  /\ \/ now = 0 /\ InitModels
     \/ /\ now = TicksPerSecond
        /\ models = save_model(<<>>, 1, 0).models
        /\ tpc = [p \in Trainers |-> "idle"]
        /\ tdoc = [p \in Trainers |-> NoDoc]
        /\ runs = 1
        /\ lastResult = "ok"
        /\ lastId = ModelIdAt(0)
  /\ InitStage
  /\ prices = <<>>
  /\ predictions = <<>>
  /\ evaluations = <<>>
  /\ latest = [c \in {"prices", "features", "predictions", "evaluations"} |-> {}]
  /\ calls = 0
  /\ news = <<>>
  /\ \E sa \in HistoryStarts, sb \in HistoryStarts :
       \E na \in HistoryLengths, nb \in HistoryLengths :
         features = insert_features(<<>>,
            HistoryFrame("A_EQ", sa, na) \o HistoryFrame("B_EQ", sb, nb), 0)

NextCV == TrainLoad \/ TrainFold \/ TrainPublish

SpecCV == InitCV /\ [][NextCV]_vars

\* ------------------------------------------------------------------ claims
\* C1: from the first successful publish onward, every reachable state of the
\* models store (the state between save_model's deactivate and insert steps
\* included) has exactly one artifact with is_active = true.
C1_ExactlyOneActive ==
  Len(models) > 0 => Cardinality(ActiveModels) = 1

\* C2: once two concurrent save_model calls have both completed, at most one
\* artifact has is_active = true.
C2_AtMostOneActiveAfterBoth ==
  AllIdle => Cardinality(ActiveModels) <= 1

\* C3: after a successful save_model call of a sequential series,
\* get_active_model returns the artifact that call published, and it is the
\* only active one.
C3_ActiveIsLatest ==
  (AllIdle /\ lastResult = "ok") =>
     /\ Cardinality(ActiveModels) = 1
     /\ get_active_model = models[Len(models)]
     /\ get_active_model.model_id = lastId

\* A second artifact has been published after the first.
C3_Witness ==
  AllIdle /\ lastResult = "ok" /\ Len(models) >= 2

\* Every row of the frame is in the prices store with the same key, the same
\* values and the same data_source: the same bar was upserted before.
AlreadyStored(df) ==
  \A i \in 1..Len(df) : \E j \in 1..Len(prices) :
     /\ KeyOf(prices[j], PricesKey) = KeyOf(df[i], PricesKey)
     /\ prices[j].close = df[i].close
     /\ prices[j].data_source = "nse_bhavcopy"

\* C9: upserting a PriceBar that was upserted before with identical values
\* leaves the content of the prices store as it was.
C9_UpsertIdempotent ==
  [][\A df \in Frames(PriceBars) :
       (AlreadyStored(df) /\ InsertPricesCall(df)) => prices' = prices]_vars

\* The collection holds exactly the documents of the most recent upsert of
\* each key, one document per key.
HoldsLatest(coll, known, K) ==
  /\ Range(coll) = known
  /\ Len(coll) = Cardinality(known)
  /\ \A i, j \in 1..Len(coll) : KeyOf(coll[i], K) = KeyOf(coll[j], K) => i = j

\* C10: after any sequence of insert_prices, insert_features,
\* insert_predictions and insert_evaluations calls each store holds at most one
\* record per natural key, and it is the record of the most recent upsert.
C10_OneRecordPerKey ==
  /\ HoldsLatest(prices, latest.prices, PricesKey)
  /\ HoldsLatest(features, latest.features, FeaturesKey)
  /\ HoldsLatest(predictions, latest.predictions, PredictionsKey)
  /\ HoldsLatest(evaluations, latest.evaluations, EvaluationsKey)

\* Two prediction runs wrote the same key, the later one with another y_pred
\* than the first, and a second key is stored beside it.
C10_Witness ==
  /\ calls = 3
  /\ Len(predictions) = 2
  /\ \E i \in 1..2 : predictions[i].updated_at >= 1 /\ predictions[i].y_pred = 1
  /\ Len(prices) = 0 /\ Len(features) = 0 /\ Len(evaluations) = 0

\* The dates of the feature store.
FeatureDates == {f.date : f \in Range(features)}

\* C5: every Evaluation record pairs a Prediction of prediction_date D with
\* the realized ret1 of the same ticker on the next available feature date
\* after D: its target_date is the first feature date after D, and its y_true
\* is the ret1 of the ticker's feature row of that date; predictions of
\* another prediction_date are not scored against that date's return.
C5_ScoredAgainstNextFeatureDate ==
  \A e \in Range(evaluations) :
    /\ e.target_date \in FeatureDates
    /\ e.target_date > e.prediction_date
    /\ \A d \in FeatureDates : ~(e.prediction_date < d /\ d < e.target_date)
    /\ \E f \in Range(features) :
         f.ticker = e.ticker /\ f.date = e.target_date /\ f.ret1 = e.y_true

\* The newest stored predictions are for a date after which the feature store
\* has no row.
NoFeatureAfterNewestPrediction ==
  /\ predictions # <<>>
  /\ \A d \in FeatureDates : d <= Max({p.prediction_date : p \in Range(predictions)})

\* C6: when the newest stored predictions are for date D and the feature store
\* holds no row of a date after D, a run of the evaluate stage ends in failure
\* and leaves the evaluations store as it was.
C6_NoNextDateNoEvaluation ==
  [][\A shap_ok \in BOOLEAN :
       (NoFeatureAfterNewestPrediction /\ EvaluateRun(shap_ok))
         => (stage'.status # 0 /\ evaluations' = evaluations)]_vars

\* C7: the target_date of an Evaluation equals the target_date stored on the
\* Prediction it scores (the prediction of the same ticker, prediction_date
\* and model_id).
C7_SameTargetDate ==
  \A e \in Range(evaluations) : \A p \in Range(predictions) :
    (p.ticker = e.ticker /\ p.prediction_date = e.prediction_date
       /\ p.model_id = e.model_id)
      => e.target_date = p.target_date

\* C8: every stored Prediction has as target_date the next trading day after
\* its prediction_date.
C8_TargetIsNextTradingDay ==
  \A p \in Range(predictions) : p.target_date = NextTradingDay(p.prediction_date)

\* C4: in every fold of the trainer's cross-validation the dates of all rows of
\* the training partition are strictly before the dates of all rows of the
\* test partition.
C4_TrainDatesPrecedeTestDates ==
  \A i \in cv.tr : \A j \in cv.te : cv.df[i].date < cv.df[j].date

\* The labelled samples a training run finds in the feature store.
LabelledSamples == Len(make_labels(get_latest_features(60)))

\* C11: a training run that finds fewer than 50 labelled samples stops with a
\* nonzero status and leaves the models store as it was (nothing is published,
\* the active model stays); a run that finds 50 or more goes on to its
\* cross-validation, and its publish step appends a new artifact that is the
\* only active one.
C11_MinimumSamples ==
  [][/\ (TrainLoad /\ LabelledSamples < 50)
          => (cv'.at = "failed" /\ stage'.status # 0 /\ models' = models)
     /\ (TrainLoad /\ LabelledSamples >= 50)
          => (cv'.at = "cv" /\ Len(cv'.df) = LabelledSamples /\ models' = models)
     /\ cv.at = "failed" => models' = models
     /\ TrainPublish
          => /\ stage'.status = 0
             /\ Len(models') = Len(models) + 1
             /\ models'[Len(models')].is_active
             /\ \A i \in 1..Len(models) : ~models'[i].is_active]_vars

\* A run found exactly 49 labelled samples and stopped, the artifact published
\* before it still the active one.
C11_Witness ==
  /\ cv.at = "failed"
  /\ LabelledSamples = 49
  /\ stage = [name |-> "train", status |-> 1]
  /\ Cardinality(ActiveModels) = 1

\* C12: the explanation of an Evaluation that names drivers was computed with
\* the artifact whose model_id is stamped on the Prediction it scores (the
\* Evaluation carries that Prediction's model_id).
C12_ExplainedWithPredictingModel ==
  \A e \in Range(evaluations) :
    e.gap_reason_text.drivers # 0 =>
      \E m \in Range(models) :
        m.model_id = e.model_id /\ m.model_data = e.gap_reason_text.drivers

\* The store an evaluate run leaves when its attribution succeeds.
EvaluatedWithDrivers ==
  insert_evaluations(evaluations,
     evaluate_merged(get_latest_features(5), get_latest_predictions,
                     load_model_object, TRUE, now), now)

\* C13: an evaluate run that passes its guards and whose attribution raises
\* ends with status 0 and leaves the store it would have left had the
\* attribution succeeded, document for document (the same y_true, abs_gap and
\* signed_gap, one document for every joined ticker), but for the explanation,
\* which says that the drivers are unavailable.
C13_MetricsWithoutExplanation ==
  [][(/\ EvaluateRun(FALSE)
      /\ ~EvaluateFails(get_latest_features(5), get_latest_predictions,
                        load_model_object))
       => /\ stage'.status = 0
          /\ Len(evaluations') = Len(EvaluatedWithDrivers)
          /\ \A i \in 1..Len(evaluations') :
               /\ \A k \in (DOMAIN EvaluatedWithDrivers[i]) \ {"gap_reason_text"} :
                    evaluations'[i][k] = EvaluatedWithDrivers[i][k]
               /\ evaluations'[i].updated_at = now =>
                    evaluations'[i].gap_reason_text.text =
                      "Model drivers unavailable (insufficient historical data)"
          /\ \A p \in Range(predictions) :
               (\E f \in Range(features) :
                   f.ticker = p.ticker /\ f.date = Max(FeatureDates))
                 => \E e \in Range(evaluations') :
                      /\ e.ticker = p.ticker
                      /\ e.updated_at = now
                      /\ e.abs_gap = Abs(e.y_true - e.y_pred)
                      /\ e.signed_gap = e.y_true - e.y_pred]_vars

\* An evaluate run whose attribution raised has written its Evaluations.
C13_Witness ==
  /\ stage = [name |-> "evaluate", status |-> 0]
  /\ \E e \in Range(evaluations) :
       /\ e.gap_reason_text.drivers = 0
       /\ e.evaluation_date = now - TicksPerSecond
       /\ e.abs_gap = 1


\* The stored bars and the stored feature rows of a ticker.
BarsOf(t) == SelectSeq(prices, LAMBDA r : r.ticker = t)
RowsOf(t) == SelectSeq(features, LAMBDA r : r.ticker = t)

\* C14: a ticker with fewer than 15 price bars has no feature row, whatever
\* the history of the other tickers.
C14_ShortHistoryNoRows ==
  \A t \in Tickers : Len(BarsOf(t)) < 15 => RowsOf(t) = <<>>

\* The feature stage has succeeded while one ticker had 14 bars and none of
\* the rows, and the other had rows.
C14_Witness ==
  /\ stage = [name |-> "features", status |-> 0]
  /\ \E t \in Tickers, u \in Tickers :
       /\ Len(BarsOf(t)) = 14
       /\ RowsOf(t) = <<>>
       /\ RowsOf(u) # <<>>

\* C15: every stored feature row has a defined ret1: it is not the first bar
\* of its ticker, and its close and the close of the bar before are defined.
C15_Ret1Defined ==
  \A r \in Range(features) :
    /\ r.ret1 # NaN
    /\ \E i \in 2..Len(BarsOf(r.ticker)) :
         /\ BarsOf(r.ticker)[i].date = r.date
         /\ BarsOf(r.ticker)[i].close # NaN
         /\ BarsOf(r.ticker)[i - 1].close # NaN

\* The feature stage has stored rows of a ticker one of whose bars has no
\* close: the first bar, that bar and the bar after it have no row.
C15_Witness ==
  /\ stage = [name |-> "features", status |-> 0]
  /\ \E t \in Tickers :
       /\ \E b \in Range(BarsOf(t)) : b.close = NaN
       /\ RowsOf(t) # <<>>
       /\ Len(RowsOf(t)) = Len(BarsOf(t)) - 3

\* C16: every stored feature row has all ten feature fields populated, and a
\* (ticker, date) has one row.
C16_AllFieldsPopulated ==
  /\ \A r \in Range(features) :
       \A f \in {"ret1", "ret5", "vol20", "rsi14", "macd", "adx14", "z_close_20",
                 "market_news_sent_mean", "market_news_sent_max",
                 "market_news_count"} : r[f] # NaN
  /\ \A i, j \in 1..Len(features) :
       (features[i].ticker = features[j].ticker
          /\ features[i].date = features[j].date) => i = j

\* C17: a run of the feature stage leaves rows for every eligible ticker, the
\* news store being empty or not, and every row of a date without a sentiment
\* sample carries (0, 0, 0).
C17_NoSentimentIsZero ==
  [][BuildFeaturesMain =>
       /\ \A t \in Tickers :
            Len(BarsOf(t)) >= 15 => \E r \in Range(features') : r.ticker = t
       /\ \A r \in Range(features') :
            (\A a \in Range(news) : a.date # r.date) =>
              /\ r.market_news_sent_mean = 0
              /\ r.market_news_sent_max = 0
              /\ r.market_news_count = 0]_vars

\* C18: predict ends in failure, and the predictions store is left as it was,
\* when no artifact is active and when the feature store holds no row.
C18_PredictNeedsModelAndFeatures ==
  [][(PredictRun /\ (ActiveModels = {} \/ features = <<>>))
       => (stage'.status # 0 /\ predictions' = predictions)]_vars

\* predict has failed with feature rows and an artifact in the stores, none
\* of the artifacts being active, and has written nothing.
C18_Witness ==
  /\ stage = [name |-> "predict", status |-> 1]
  /\ ActiveModels = {}
  /\ models # <<>>
  /\ features # <<>>
  /\ predictions = <<>>

\* C19: a failure of any store call of predict ends the stage in failure
\* with nothing written.
C19_StoreFailureIsFatal ==
  [][\A fault \in StoreCalls :
       PredictRunFaulty(fault) => (stage'.status # 0 /\ predictions' = predictions)]_vars

\* C20: no step deletes an artifact or changes a field of it other than
\* is_active, and predict and evaluate leave the models store as it is.
C20_ArtifactsAreKept ==
  [][/\ Len(models') >= Len(models)
     /\ \A i \in 1..Len(models) :
          [models'[i] EXCEPT !.is_active = models[i].is_active] = models[i]
     /\ (PredictRun \/ \E shap_ok \in BOOLEAN : EvaluateRun(shap_ok))
          => models' = models]_vars

\* A second artifact has been published, the first is stored as it was but
\* inactive, and evaluate has run after predict.
C20_Witness ==
  /\ Len(models) = 2
  /\ models[1] = [save_model(<<>>, 1, 0).models[1] EXCEPT !.is_active = FALSE]
  /\ models[2].is_active
  /\ predictions # <<>>
  /\ stage = [name |-> "evaluate", status |-> 0]

\* C21: a save_model call that follows another is assigned a model_id
\* strictly greater than the one assigned to the call before it.
C21_ModelIdsIncrease ==
  [][\A p \in Trainers :
       (SaveModelInsert(p) /\ runs > 1) => tdoc[p].model_id > lastId]_vars

\* C26: when the insert of a save_model call is rejected, the artifact that
\* the call before it published, active until this call began, is still
\* active.
C26_FailedPublishKeepsActive ==
  [][\A p \in Trainers :
       (SaveModelInsert(p) /\ lastResult = "ok" /\ lastResult' = "error")
         => \E m \in Range(models') : m.model_id = lastId /\ m.is_active]_vars

\* C22: under the scheduler at most one job is running at any time.
C22_OneJobAtATime ==
  Cardinality({j \in SchedulerJobs : job[j].status = "running"}) <= 1

\* C25: the model_id of every Prediction names the artifact whose model
\* computed its y_pred from the feature row of its ticker and date.
C25_StampedWithPredictingModel ==
  \A p \in Range(predictions) :
    \E m \in Range(models), f \in Range(features) :
      /\ m.model_id = p.model_id
      /\ f.ticker = p.ticker
      /\ f.date = p.date
      /\ p.y_pred = ModelPredict(m.model_data, f)

C23_EmptyStoresAnswered ==
  [][/\ (GetPredictToday /\ predictions = <<>>)
          => (response'.code = 200 /\ response'.status = "no_predictions")
     /\ (GetExplainGap /\ evaluations = <<>>)
          => (response'.code = 200 /\ response'.status = "no_eval")
     /\ \A window \in Windows :
          (GetAccuracyByStock(window) /\ evaluations = <<>>)
            => (response'.code = 200 /\ response'.status = "no_eval")]_vars

\* /explain_gap has answered that there is no evaluation, the store being
\* empty while predictions are stored.
C23_Witness ==
  /\ response = [endpoint |-> "/explain_gap", code |-> 200, status |-> "no_eval",
                 count |-> 0]
  /\ evaluations = <<>>
  /\ predictions # <<>>

\* C27: no stored feature row has an undefined rsi14, macd or adx14: a row
\* for which the indicator cannot be computed carries its neutral constant.
C27_NeutralIndicators ==
  \A r \in Range(features) :
    /\ r.rsi14 # NaN
    /\ r.macd # NaN
    /\ r.adx14 # NaN

\* The feature rows of the ticker of r that are later than r.
LaterRows(r) == {f \in Range(features) : f.ticker = r.ticker /\ f.date > r.date}

\* C28: in the frame make_labels returns for the stored feature rows, a row
\* with a later row of its ticker appears once, with the ret1 of the
\* earliest of those later rows as y_next, and a row without one, the most
\* recent of its ticker, does not appear.
C28_LabelIsNextObservation ==
  LET labelled == make_labels(get_latest_features(60))
      of(r) == {k \in 1..Len(labelled) :
                  labelled[k].ticker = r.ticker /\ labelled[k].date = r.date}
  IN  /\ \A r \in Range(features) :
           IF LaterRows(r) = {} THEN of(r) = {}
           ELSE /\ Cardinality(of(r)) = 1
                /\ \A k \in of(r) : \E f \in LaterRows(r) :
                     /\ \A g \in LaterRows(r) : f.date <= g.date
                     /\ labelled[k].y_next = f.ret1
      /\ \A k \in 1..Len(labelled) :
           \E r \in Range(features) : k \in of(r)

\* A training run has fitted on the labelled frame while the newest feature
\* date held a row of one ticker only, so that the most recent rows of the
\* two tickers are of different dates.
C28_Witness ==
  /\ stage = [name |-> "train", status |-> 0]
  /\ \E r \in Range(features) :
       /\ r.ticker = "A_EQ"
       /\ LaterRows(r) = {}
       /\ \E f \in Range(features) : f.ticker = "B_EQ" /\ f.date > r.date

\* The ret1 of the feature rows of a ticker up to a date, the latest 20 of
\* them at most, in date order.
TrailingRet1(ticker, date) ==
  LET rows == SortSeq(SelectSeq(features, LAMBDA f : f.ticker = ticker /\ f.date <= date),
                      LAMBDA a, b : a.date < b.date)
      first == Max({1, Len(rows) - 19})
  IN  [i \in 1..(Len(rows) - first + 1) |-> rows[first + i - 1].ret1]

\* C29: the confidence of a Prediction is computed from the distance of its
\* y_pred to the mean of the ticker's trailing ret1 over min(20, available)
\* rows ending at the prediction's date (both sides are multiplied by the
\* number of rows of the window).
C29_ConfidenceFromTrailingMean ==
  \A p \in Range(predictions) :
    LET x == TrailingRet1(p.ticker, p.date)
    IN  Len(x) * p.y_pred_conf = Abs(Len(x) * p.y_pred - SumOf(x))

\* C30: the connection a process opens after switch_environment is to the
\* database of the environment switched to, and the universe a database
\* holds is the listing of its own environment.
C30_SwitchedDatabaseIsUsed ==
  /\ env.sync_db # "None" => env.sync_db = DatabaseName(env.DEP_TYPE)
  /\ env.universe[DatabaseName("prod")] # "mock"
  /\ env.universe[DatabaseName("mock")] # "real"

====
